---- MODULE Spec2Model ----
(***************************************************************************)
(* A model of bitmapist (src/bitmapist/__init__.py): event and attribute   *)
(* bitmaps kept in a Redis store, exact bit-range counting on top of the   *)
(* store's byte-range BITCOUNT, and derived bitmaps built with BITOP.      *)
(*                                                                         *)
(* The store is a function from the keys that exist to a string value      *)
(* (its byte length and the set of its set bit offsets) and a remaining    *)
(* time to live in seconds (-1: no expiry).                                *)
(***************************************************************************)
EXTENDS Integers, Sequences, FiniteSets, TLC

VARIABLES store,      \* the Redis database: key -> [len, bits, ttl]
          temp_ttl,   \* Bitmapist.temp_ttl
          handles,    \* the BitOperation objects built: redis key -> seconds since built
          last,       \* the last call: its name, arguments, outcome, store commands
          marks,      \* the number of marks made (where a run bounds them)
          pending     \* per client, the call it is in and its requests not yet sent

vars == <<store, temp_ttl, handles, last, marks, pending>>

\* ------------------------------------------------------------------ bounds

\* Highest bit offset an attribute is marked with in the counting specification.
MaxBit == 11
\* Most bits set at once in the counting specification.
MaxSetBits == 2
\* get_count is called with bounds in -MaxRange .. MaxRange (or None).
MaxRange == 13
\* Times to live: MaxTTL seconds given to mark_event, up to MaxTTL seconds
\* given to Bitmapist as temp_ttl.
MaxTTL == 1
\* Most mark_event calls in one run of the marking specification, and most
\* mark_attribute calls in one run of the composition specification.
MaxMarks == 2
\* Most operands of one composition.
MaxOperands == 2
\* Most BitOperation objects built in one run.
MaxHandles == 2
\* The byte conversions are given bit indices in -MaxBitIndex .. MaxBitIndex.
MaxBitIndex == 130

\* ----------------------------------------------------------- Python values

PyInt(n) == [tag |-> "int", v |-> n]
None == [tag |-> "None", v |-> 0]
\* An exception leaving the call.
Raise(e) == [tag |-> e, v |-> 0]
IsInt(x) == x.tag = "int"
IsRaise(x) == x.tag \in {"TypeError", "ValueError", "ResponseError"}
\* Python's truth value of None or an int.
Truthy(x) == IsInt(x) /\ x.v # 0

Max(a, b) == IF a >= b THEN a ELSE b
Min(a, b) == IF a <= b THEN a ELSE b

\* The number of elements of S that are in the finite set B.
CountIn(S, B) == Cardinality(S \cap B)

\* xrange(start, stop, step) for step 1 or -1, as the set of its values.
xrange(start, stop, step) ==
    IF step = 1 THEN {i \in start .. (stop - 1) : TRUE}
    ELSE {i \in (stop + 1) .. start : TRUE}

\* Bitmapist(redis_client, prefix='trackist', divider=':')
prefix == "trackist"
divider == ":"

\* --------------------------------------------------------- the Redis store

NoTtl == -1

Exists(st, key) == key \in DOMAIN st
StrLen(st, key) == IF Exists(st, key) THEN st[key].len ELSE 0
Bits(st, key) == IF Exists(st, key) THEN st[key].bits ELSE {}
Ttl(st, key) == IF Exists(st, key) THEN st[key].ttl ELSE NoTtl

Put(st, key, val) ==
    [k \in DOMAIN st \cup {key} |-> IF k = key THEN val ELSE st[k]]

DEL(st, keys) == [k \in DOMAIN st \ keys |-> st[k]]

\* GETBIT key offset: 0 past the end of the string or for a missing key.
GETBIT(st, key, offset) == IF offset \in Bits(st, key) THEN 1 ELSE 0

\* SETBIT key offset value: creates the key, pads the string with zero bytes
\* up to the offset's byte, keeps the key's time to live.
SETBIT(st, key, offset, value) ==
    Put(st, key,
        [len  |-> Max(StrLen(st, key), (offset \div 8) + 1),
         bits |-> IF value = 1 THEN Bits(st, key) \cup {offset}
                  ELSE Bits(st, key) \ {offset},
         ttl  |-> Ttl(st, key)])

\* BITCOUNT key
BITCOUNT(st, key) == Cardinality(Bits(st, key))

\* BITCOUNT key start end: byte indices, inclusive, negative ones counted
\* from the end of the string, clamped to the string.
BITCOUNTRange(st, key, start, end) ==
    LET strlen == StrLen(st, key)
        s0 == IF start < 0 THEN strlen + start ELSE start
        e0 == IF end < 0 THEN strlen + end ELSE end
        s1 == Max(s0, 0)
        e1 == Min(Max(e0, 0), strlen - 1)
    IN  IF s1 > e1 THEN 0
        ELSE CountIn((8 * s1) .. (8 * e1 + 7), Bits(st, key))

\* EXPIRE key seconds: nothing for a missing key; a time to live that is not
\* positive deletes the key.
EXPIRE(st, key, seconds) ==
    IF ~Exists(st, key) THEN st
    ELSE IF seconds <= 0 THEN DEL(st, {key})
    ELSE Put(st, key, [st[key] EXCEPT !.ttl = seconds])

\* The store after `seconds` seconds: keys whose time to live ran out are gone.
Elapse(st, seconds) ==
    [k \in {x \in DOMAIN st : st[x].ttl = NoTtl \/ st[x].ttl > seconds} |->
        IF st[k].ttl = NoTtl THEN st[k]
        ELSE [st[k] EXCEPT !.ttl = st[k].ttl - seconds]]

\* BITOP op destkey srckeys: missing keys are empty strings and shorter
\* strings are padded with zero bytes; the result replaces destkey and its
\* time to live, and an empty result deletes destkey.
BITOP(st, op, dest, srcs) ==
    LET n == Len(srcs)
        maxlen == IF n = 0 THEN 0
                  ELSE CHOOSE m \in {StrLen(st, srcs[j]) : j \in 1 .. n} :
                           \A j \in 1 .. n : StrLen(st, srcs[j]) <= m
        has(i) == {j \in 1 .. n : i \in Bits(st, srcs[j])}
        bits == {i \in 0 .. (8 * maxlen - 1) :
                    CASE op = "AND" -> Cardinality(has(i)) = n
                      [] op = "OR"  -> has(i) # {}
                      [] op = "XOR" -> Cardinality(has(i)) % 2 = 1
                      [] op = "NOT" -> has(i) = {}}
    IN  IF maxlen = 0 THEN DEL(st, {dest})
        ELSE Put(st, dest, [len |-> maxlen, bits |-> bits, ttl |-> NoTtl])

\* KEYS pattern, for the patterns '<prefix><divider>*' (kind "") and
\* '<prefix><divider><kind><divider>*'.
KEYS(st, kind) ==
    {k \in DOMAIN st :
        /\ Len(k) >= 2 /\ k[1] = prefix /\ k[2] = divider
        /\ kind # "" => (Len(k) >= 4 /\ k[3] = kind /\ k[4] = divider)}

\* GET key: whether the reply is a value (the key exists).
GET(st, key) == Exists(st, key)

\* A command sent to the store, and the store after it; the server rejects a
\* BITOP that names no source key and a SETBIT whose value is not a bit.
Cmd(cmd, key, args) == [cmd |-> cmd, key |-> key, args |-> args]

Rejected(c) ==
    \/ c.cmd = "BITOP" /\ Len(c.args[2]) = 0
    \/ c.cmd = "BITOP" /\ c.args[1] = "NOT" /\ Len(c.args[2]) # 1
    \/ c.cmd = "SETBIT" /\ c.args[2] \notin {0, 1}

Exec(st, c) ==
    IF Rejected(c) THEN st
    ELSE CASE c.cmd = "SETBIT" -> SETBIT(st, c.key, c.args[1], c.args[2])
           [] c.cmd = "EXPIRE" -> EXPIRE(st, c.key, c.args[1])
           [] c.cmd = "BITOP"  -> BITOP(st, c.args[1], c.key, c.args[2])
           [] c.cmd = "DEL"    -> DEL(st, c.args[1])

\* MULTI ... EXEC: the queued commands applied in order, nothing in between.
RECURSIVE ExecAll(_, _)
ExecAll(st, cmds) ==
    IF cmds = <<>> THEN st ELSE ExecAll(Exec(st, Head(cmds)), Tail(cmds))

\* ------------------------------------------------------------------- keys

\* A key is the sequence of the pieces its string is made of.
\* _prefix_key(event_name, prefix, divider, date): date is <<>> for None.
_prefix_key(event_name, date) ==
    IF date # <<>>
    THEN <<prefix, divider, "ev", divider, event_name, divider>> \o date
    ELSE <<prefix, divider, "at", divider, event_name>>

\* datetime: the proleptic Gregorian calendar, as Python's datetime computes
\* toordinal() and isocalendar().
IsLeap(year) == year % 4 = 0 /\ (year % 100 # 0 \/ year % 400 = 0)

DaysInMonth(year, month) ==
    IF month = 2 THEN (IF IsLeap(year) THEN 29 ELSE 28)
    ELSE IF month \in {4, 6, 9, 11} THEN 30 ELSE 31

RECURSIVE DaysBeforeMonth(_, _)
DaysBeforeMonth(year, month) ==
    IF month = 1 THEN 0
    ELSE DaysBeforeMonth(year, month - 1) + DaysInMonth(year, month - 1)

DaysBeforeYear(year) ==
    LET y == year - 1 IN y * 365 + (y \div 4) - (y \div 100) + (y \div 400)

ToOrdinal(year, month, day) ==
    DaysBeforeYear(year) + DaysBeforeMonth(year, month) + day

IsoWeek1Monday(year) ==
    LET firstday == ToOrdinal(year, 1, 1)
        firstweekday == (firstday + 6) % 7
        week1monday == firstday - firstweekday
    IN  IF firstweekday > 3 THEN week1monday + 7 ELSE week1monday

\* now.isocalendar()[0:2] as <<ISO year, ISO week>>
isocalendar(now) ==
    LET today == ToOrdinal(now.year, now.month, now.day)
        week == (today - IsoWeek1Monday(now.year)) \div 7
    IN  IF week < 0
        THEN <<now.year - 1,
               ((today - IsoWeek1Monday(now.year - 1)) \div 7) + 1>>
        ELSE IF week >= 52 /\ today >= IsoWeek1Monday(now.year + 1)
        THEN <<now.year + 1, 1>>
        ELSE <<now.year, week + 1>>

\* The redis_key of MonthEvents, WeekEvents, DayEvents, HourEvents, Attributes
\* as the get_*_event methods build them from `now`.
get_month_event(event_name, now) ==
    _prefix_key(event_name, <<ToString(now.year), "-", ToString(now.month)>>)

get_week_event(event_name, now) ==
    _prefix_key(event_name,
        <<"W", ToString(isocalendar(now)[1]), "-", ToString(isocalendar(now)[2])>>)

get_day_event(event_name, now) ==
    _prefix_key(event_name,
        <<ToString(now.year), "-", ToString(now.month), "-", ToString(now.day)>>)

get_hour_event(event_name, now) ==
    _prefix_key(event_name,
        <<ToString(now.year), "-", ToString(now.month), "-", ToString(now.day),
          "-", ToString(now.hour)>>)

get_attribute(attribute_name) == _prefix_key(attribute_name, <<>>)

\* ------------------------------------------------------------- MixinCounts

ERROR == [tag |-> "error", v |-> 0]

\* A faulty _convert_to_start_byte whose division rounds toward zero.
_convert_to_start_byte_truncating(bit) ==
    IF ~IsInt(bit) THEN Raise("TypeError")
    ELSE IF -7 <= bit.v /\ bit.v < 0 THEN ERROR
    ELSE IF bit.v + 7 >= 0 THEN PyInt((bit.v + 7) \div 8)
    ELSE PyInt(-((-(bit.v + 7)) \div 8))

_convert_to_start_byte(bit) ==
    IF ~IsInt(bit) THEN Raise("TypeError")          \* (None + 7)
    ELSE IF -7 <= bit.v /\ bit.v < 0 THEN ERROR
    ELSE PyInt((bit.v + 7) \div 8)

_convert_to_end_byte(bit) ==
    IF ~IsInt(bit) THEN Raise("TypeError")          \* None < 0, then (None + 1)
    ELSE IF bit.v < 0 THEN PyInt(((bit.v + 1) \div 8) - 1)
    ELSE IF bit.v < 7 THEN ERROR
    ELSE PyInt((bit.v - 7) \div 8)

\* The sum of cli.getbit(key, offset) over the offsets of one loop; GETBIT
\* rejects a negative offset and the error leaves get_count.
SumGetbit(st, key, offsets) ==
    IF \E o \in offsets : o < 0 THEN Raise("ResponseError")
    ELSE PyInt(CountIn(offsets, Bits(st, key)))

\* total_bits += ..., an exception on either side leaving the call.
Add(a, b) ==
    IF IsRaise(a) THEN a
    ELSE IF IsRaise(b) THEN b
    ELSE PyInt(a.v + b.v)

get_count(st, key, start_bit, end_bit) ==
    IF ~Truthy(start_bit) /\ ~Truthy(end_bit) THEN PyInt(BITCOUNT(st, key))
    ELSE
      LET start_byte == _convert_to_start_byte(start_bit)
          end_byte == _convert_to_end_byte(end_bit)
      IN  IF IsRaise(start_byte) THEN start_byte
          ELSE IF IsRaise(end_byte) THEN end_byte
          ELSE IF start_byte # ERROR /\ end_byte # ERROR THEN
            LET bit_floor == start_byte.v * 8
                before == SumGetbit(st, key,
                              xrange(start_bit.v, bit_floor,
                                     IF start_bit.v >= 0 THEN 1 ELSE -1))
                inside == PyInt(BITCOUNTRange(st, key, start_byte.v, end_byte.v))
                bit_ceiling == (end_byte.v + 1) * 8
                after == SumGetbit(st, key,
                              xrange(bit_ceiling, end_bit.v + 1,
                                     IF bit_ceiling >= 0 THEN 1 ELSE -1))
            IN  Add(Add(before, inside), after)
          ELSE SumGetbit(st, key, xrange(start_bit.v, end_bit.v + 1, 1))

\* Bitmap.__len__
__len__(st, key) == get_count(st, key, None, None)

\* MixinContains.__contains__
__contains__(st, key, uuid) == GETBIT(st, key, uuid) # 0

\* ---------------------------------------------------------------- actions

\* Bitmapist.__init__: temp_ttl or 60
DefaultTempTtl == 60

Call(op, args, ret, cmds) == [op |-> op, args |-> args, ret |-> ret, cmds |-> cmds]

\* A faulty stat_objs that leaves the hour bucket out.
stat_objs_no_hour(event_name, now, sel, ttl) ==
    (IF sel.month THEN <<<<get_month_event(event_name, now), ttl.month>>>> ELSE <<>>)
    \o (IF sel.week THEN <<<<get_week_event(event_name, now), ttl.week>>>> ELSE <<>>)
    \o (IF sel.day THEN <<<<get_day_event(event_name, now), ttl.day>>>> ELSE <<>>)

\* Bitmapist.mark_event(event_name, uuid, now, month, week, day, hour,
\* month_ttl, week_ttl, day_ttl, hour_ttl): sel holds the four flags, ttl the
\* four times to live (None or seconds).
stat_objs(event_name, now, sel, ttl) ==
    (IF sel.month THEN <<<<get_month_event(event_name, now), ttl.month>>>> ELSE <<>>)
    \o (IF sel.week THEN <<<<get_week_event(event_name, now), ttl.week>>>> ELSE <<>>)
    \o (IF sel.day THEN <<<<get_day_event(event_name, now), ttl.day>>>> ELSE <<>>)
    \o (IF sel.hour THEN <<<<get_hour_event(event_name, now), ttl.hour>>>> ELSE <<>>)

\* A faulty pipeline that gives every bucket the time to live of the last one.
RECURSIVE MarkCmdsCascade(_, _, _)
MarkCmdsCascade(objs, uuid, t) ==
    IF objs = <<>> THEN <<>>
    ELSE <<Cmd("SETBIT", Head(objs)[1], <<uuid, 1>>)>>
         \o (IF t # None THEN <<Cmd("EXPIRE", Head(objs)[1], <<t.v>>)>> ELSE <<>>)
         \o MarkCmdsCascade(Tail(objs), uuid, t)

MarkCmdsLastTtl(objs, uuid) ==
    MarkCmdsCascade(objs, uuid, IF objs = <<>> THEN None ELSE objs[Len(objs)][2])

\* The commands the pipeline of mark_event queues for its stat_objs.
RECURSIVE MarkCmds(_, _)
MarkCmds(objs, uuid) ==
    IF objs = <<>> THEN <<>>
    ELSE LET obj == Head(objs)[1]
             t == Head(objs)[2]
         IN  <<Cmd("SETBIT", obj, <<uuid, 1>>)>>
             \o (IF t # None THEN <<Cmd("EXPIRE", obj, <<t.v>>)>> ELSE <<>>)
             \o MarkCmds(Tail(objs), uuid)

mark_event(event_name, uuid, now, sel, ttl) ==
    LET cmds == MarkCmds(stat_objs(event_name, now, sel, ttl), uuid)
    IN  /\ store' = ExecAll(store, cmds)
        /\ last' = Call("mark_event",
                        [name |-> event_name, uuid |-> uuid, now |-> now,
                         sel |-> sel, ttl |-> ttl],
                        None, cmds)
        /\ UNCHANGED <<temp_ttl, handles>>

\* The commands the pipeline of mark_attribute_multi queues.
RECURSIVE SetbitCmds(_, _, _)
SetbitCmds(key, uuids, mark_as) ==
    IF uuids = <<>> THEN <<>>
    ELSE <<Cmd("SETBIT", key, <<Head(uuids), mark_as>>)>>
         \o SetbitCmds(key, Tail(uuids), mark_as)

\* A faulty mark_attribute_multi that sends whatever mark value it is given:
\* the server rejects the commands.
mark_attribute_multi_unchecked(attribute_name, uuids, mark_as) ==
    LET args == [name |-> attribute_name, uuids |-> uuids, mark_as |-> mark_as]
        cmds == SetbitCmds(get_attribute(attribute_name), uuids, mark_as)
    IN  /\ store' = ExecAll(store, cmds)
        /\ last' = Call("mark_attribute_multi", args,
                        IF \E i \in 1 .. Len(cmds) : Rejected(cmds[i])
                        THEN Raise("ResponseError") ELSE None,
                        cmds)
        /\ UNCHANGED <<temp_ttl, handles>>

\* Bitmapist.mark_attribute_multi(attribute_name, uuids, mark_as)
mark_attribute_multi(attribute_name, uuids, mark_as) ==
    LET args == [name |-> attribute_name, uuids |-> uuids, mark_as |-> mark_as]
        cmds == SetbitCmds(get_attribute(attribute_name), uuids, mark_as)
    IN  IF mark_as \notin {0, 1}
        THEN /\ last' = Call("mark_attribute_multi", args, Raise("ValueError"), <<>>)
             /\ UNCHANGED <<store, temp_ttl, handles>>
        ELSE /\ store' = ExecAll(store, cmds)
             /\ last' = Call("mark_attribute_multi", args, None, cmds)
             /\ UNCHANGED <<temp_ttl, handles>>

\* Bitmapist.mark_attribute(attribute_name, uuid, mark_as): uuids is <<uuid>>
\* for an int uuid (is_list FALSE) and the list itself for a list.
mark_attribute(attribute_name, is_list, uuids, mark_as) ==
    LET args == [name |-> attribute_name, uuids |-> uuids, mark_as |-> mark_as]
        cmds == <<Cmd("SETBIT", get_attribute(attribute_name), <<uuids[1], mark_as>>)>>
    IN  IF mark_as \notin {0, 1}
        THEN /\ last' = Call("mark_attribute", args, Raise("ValueError"), <<>>)
             /\ UNCHANGED <<store, temp_ttl, handles>>
        ELSE IF is_list
        THEN mark_attribute_multi(attribute_name, uuids, mark_as)
        ELSE /\ store' = ExecAll(store, cmds)
             /\ last' = Call("mark_attribute", args, None, cmds)
             /\ UNCHANGED <<temp_ttl, handles>>

\* '-'.join(event_redis_keys)
RECURSIVE JoinKeys(_)
JoinKeys(keys) ==
    IF keys = <<>> THEN <<>>
    ELSE IF Len(keys) = 1 THEN keys[1]
    ELSE keys[1] \o <<"-">> \o JoinKeys(Tail(keys))

\* BitOperation.redis_key
BitOpKey(op_name, events) ==
    <<prefix, divider, "bitop", divider, op_name, divider>> \o JoinKeys(events)

\* Redis reads the operation's name whatever its case: 'Not' is NOT.
RedisOp(op_name) == IF op_name = "Not" THEN "NOT" ELSE op_name

\* A faulty BitOperation that keeps the result it finds under the key and
\* only refreshes its time to live.
BitOperationCached(call, op_name, events) ==
    LET redis_key == BitOpKey(op_name, events)
        bitop == Cmd("BITOP", redis_key, <<RedisOp(op_name), events>>)
        expire == Cmd("EXPIRE", redis_key, <<temp_ttl>>)
        cmds == IF Exists(store, redis_key) THEN <<expire>> ELSE <<bitop, expire>>
    IN  IF Rejected(bitop)
        THEN /\ last' = Call(call, [events |-> events], Raise("ResponseError"), <<bitop>>)
             /\ UNCHANGED <<store, temp_ttl, handles>>
        ELSE /\ store' = ExecAll(store, cmds)
             /\ handles' = [k \in DOMAIN handles \cup {redis_key} |->
                                IF k = redis_key THEN 0 ELSE handles[k]]
             /\ last' = Call(call, [events |-> events],
                             [tag |-> "BitOperation", v |-> redis_key], <<bitop, expire>>)
             /\ UNCHANGED temp_ttl

\* A faulty BitOperation that never sends the expire.
BitOperationNoExpire(call, op_name, events) ==
    LET redis_key == BitOpKey(op_name, events)
        bitop == Cmd("BITOP", redis_key, <<RedisOp(op_name), events>>)
    IN  IF Rejected(bitop)
        THEN /\ last' = Call(call, [events |-> events], Raise("ResponseError"), <<bitop>>)
             /\ UNCHANGED <<store, temp_ttl, handles>>
        ELSE /\ store' = Exec(store, bitop)
             /\ handles' = [k \in DOMAIN handles \cup {redis_key} |->
                                IF k = redis_key THEN 0 ELSE handles[k]]
             /\ last' = Call(call, [events |-> events],
                             [tag |-> "BitOperation", v |-> redis_key], <<bitop>>)
             /\ UNCHANGED temp_ttl

\* BitOperation.__init__(op_name, prefix, divider, redis_client, ttl, *events):
\* events are the operands' redis keys; a rejected bitop raises and the expire
\* is not sent.
BitOperation(call, op_name, events) ==
    LET redis_key == BitOpKey(op_name, events)
        bitop == Cmd("BITOP", redis_key, <<RedisOp(op_name), events>>)
        expire == Cmd("EXPIRE", redis_key, <<temp_ttl>>)
    IN  IF Rejected(bitop)
        THEN /\ last' = Call(call, [events |-> events], Raise("ResponseError"), <<bitop>>)
             /\ UNCHANGED <<store, temp_ttl, handles>>
        ELSE /\ store' = Exec(Exec(store, bitop), expire)
             /\ handles' = [k \in DOMAIN handles \cup {redis_key} |->
                                IF k = redis_key THEN 0 ELSE handles[k]]
             /\ last' = Call(call, [events |-> events],
                             [tag |-> "BitOperation", v |-> redis_key],
                             <<bitop, expire>>)
             /\ UNCHANGED temp_ttl

\* Bitmapist.bit_op_and(*bitmaps), bit_op_or(*bitmaps), bit_op_xor(*bitmaps)
bit_op_and(bitmaps) == BitOperation("bit_op_and", "AND", bitmaps)
bit_op_or(bitmaps) == BitOperation("bit_op_or", "OR", bitmaps)
\* A faulty bit_op_xor that asks for OR.
bit_op_xor_as_or(bitmaps) == BitOperation("bit_op_xor", "OR", bitmaps)
bit_op_xor(bitmaps) == BitOperation("bit_op_xor", "XOR", bitmaps)

\* A faulty bit_op_not that asks for XOR.
bit_op_not_as_xor(bitmaps) ==
    IF Len(bitmaps) # 1
    THEN /\ last' = Call("bit_op_not", [events |-> bitmaps], Raise("TypeError"), <<>>)
         /\ UNCHANGED <<store, temp_ttl, handles>>
    ELSE BitOperation("bit_op_not", "XOR", bitmaps)

\* Bitmapist.bit_op_not(bitmap): one positional parameter, so a call with
\* another number of bitmaps is a TypeError of the call itself.
bit_op_not(bitmaps) ==
    IF Len(bitmaps) # 1
    THEN /\ last' = Call("bit_op_not", [events |-> bitmaps], Raise("TypeError"), <<>>)
         /\ UNCHANGED <<store, temp_ttl, handles>>
    ELSE BitOperation("bit_op_not", "Not", bitmaps)

\* delete_all, delete_all_events, delete_all_attributes and
\* delete_temporary_bitop_keys: kind is "", "ev", "at", "bitop".
delete_keys(call, kind) ==
    LET keys == KEYS(store, kind)
        cmds == IF Cardinality(keys) > 0 THEN <<Cmd("DEL", <<>>, <<keys>>)>> ELSE <<>>
    IN  /\ store' = ExecAll(store, cmds)
        /\ last' = Call(call, <<>>, None, cmds)
        /\ UNCHANGED <<temp_ttl, handles>>

delete_all == delete_keys("delete_all", "")
delete_all_events == delete_keys("delete_all_events", "ev")
delete_all_attributes == delete_keys("delete_all_attributes", "at")
delete_temporary_bitop_keys == delete_keys("delete_temporary_bitop_keys", "bitop")

\* A Python bool and a Python set as return values.
PyBool(b) == [tag |-> "bool", v |-> b]
PySet(S) == [tag |-> "set", v |-> S]

\* A faulty has_events_marked that looks for a set bit.
has_events_marked_by_count(st, key) == PyBool(BITCOUNT(st, key) > 0)

\* MixinMarked.has_events_marked: cli.get(self.redis_key) != None
has_events_marked(st, key) == PyBool(GET(st, key))

\* event_re.search(key) of get_all_event_names, the pattern being
\* '<divider>ev<divider>(.*)<divider>W\d+-\d+': the names captured, none when
\* the key has no week token after the name.
event_re_search(key) ==
    IF /\ Len(key) >= 10
       /\ key[2] = divider /\ key[3] = "ev" /\ key[4] = divider
       /\ key[6] = divider /\ key[7] = "W" /\ key[9] = "-"
    THEN {key[5]} ELSE {}

\* Bitmapist.get_all_event_names
get_all_event_names(st) ==
    PySet(UNION {event_re_search(key) : key \in KEYS(st, "ev")})

\* Time passing: the store expires keys, and the objects built grow older
\* (their age is followed up to temp_ttl seconds).
Tick(seconds) ==
    /\ store' = Elapse(store, seconds)
    /\ handles' = [k \in DOMAIN handles |-> Min(handles[k] + seconds, temp_ttl)]
    /\ last' = Call("tick", [seconds |-> seconds], None, <<>>)
    /\ UNCHANGED temp_ttl

\* bitmap.get_count(start_bit, end_bit) on the bitmap stored under key.
GetCount(key, start_bit, end_bit) ==
    /\ last' = Call("get_count",
                    [key |-> key, start_bit |-> start_bit, end_bit |-> end_bit],
                    get_count(store, key, start_bit, end_bit), <<>>)
    /\ UNCHANGED <<store, temp_ttl, handles>>

\* Bitmapist.__init__(redis_client, temp_ttl=arg): self.temp_ttl
Bitmapist__init__(arg) == IF Truthy(arg) THEN arg.v ELSE DefaultTempTtl

\* A Bitmapist built with temp_ttl=arg over an empty database.
Start(arg) ==
    /\ store = <<>>
    /\ temp_ttl = Bitmapist__init__(arg)
    /\ handles = <<>>
    /\ last = Call("init", <<>>, None, <<>>)
    /\ marks = 0
    /\ pending = <<>>

\* ----------------------------------------- the counting specification

CountAttr == "paid_user"
CountKey == get_attribute(CountAttr)
CountArgs == {None} \cup {PyInt(i) : i \in (-MaxRange) .. MaxRange}

CountMark ==
    \E uuid \in 0 .. MaxBit, mark_as \in {0, 1} :
        /\ mark_as = 1 => Cardinality(Bits(store, CountKey) \cup {uuid}) <= MaxSetBits
        /\ mark_attribute(CountAttr, FALSE, <<uuid>>, mark_as)

CountQuery ==
    \E start_bit \in CountArgs, end_bit \in CountArgs :
        GetCount(CountKey, start_bit, end_bit)

\* get_count leaves the store as it is: whatever can follow a query could have
\* been called in its place, so the search does not continue from a query.
NextCount ==
    /\ last.op # "get_count"
    /\ CountMark \/ CountQuery
    /\ UNCHANGED <<marks, pending>>

InitCount == Start(None)

SpecCount == InitCount /\ [][NextCount]_vars

\* ------------------------------------------ the marking specification

EventNames == {"active", "signup"}
Uuids == {123, 124}

DateTime(year, month, day, hour) ==
    [year |-> year, month |-> month, day |-> day, hour |-> hour]

\* A Sunday at 23h and the hour after it: the next hour, day and ISO week
\* (week 1 of the ISO year 2013), in the same month.
Times == {DateTime(2012, 12, 30, 23), DateTime(2012, 12, 31, 0)}

Granularities == {"month", "week", "day", "hour"}
AllSelected == [g \in Granularities |-> TRUE]
NoTtls == [g \in Granularities |-> None]
\* A time to live given to mark_event is of MaxTTL seconds.
TtlArgs == {PyInt(MaxTTL)}

\* The granularities a call switches off: the first and the last of stat_objs.
SwitchedOff == {"month", "hour"}

\* The keyword arguments of a mark_event call: the defaults, or one
\* granularity switched off, or one granularity given a time to live.
MarkCalls ==
    {[sel |-> AllSelected, ttl |-> NoTtls]}
    \cup {[sel |-> [AllSelected EXCEPT ![g] = FALSE], ttl |-> NoTtls] : g \in SwitchedOff}
    \cup {[sel |-> AllSelected, ttl |-> [NoTtls EXCEPT ![c[1]] = c[2]]] :
            c \in Granularities \X TtlArgs}

MarkEvent ==
    /\ marks < MaxMarks
    /\ marks' = marks + 1
    /\ UNCHANGED pending
    /\ \E event_name \in EventNames, uuid \in Uuids, now \in Times, c \in MarkCalls :
           mark_event(event_name, uuid, now, c.sel, c.ttl)

\* Seconds pass one at a time while a key is about to expire.
Expiring(st) == \E k \in DOMAIN st : st[k].ttl # NoTtl /\ st[k].ttl <= MaxTTL

TickSecond == Expiring(store) /\ Tick(1) /\ UNCHANGED <<marks, pending>>

DeleteEvents == delete_all_events /\ UNCHANGED <<marks, pending>>

InitMark == Start(None)

NextMark == MarkEvent \/ TickSecond \/ DeleteEvents

SpecMark == InitMark /\ [][NextMark]_vars

\* --------------------------------------- the composition specification

AttrNames == {"paid_user", "active"}
\* Two identities of different bytes.
AttrUuids == {4, 9}

\* The composition specification sets bits; clearing them and invalid mark
\* values are the attribute specification's.
MarkAttribute ==
    /\ marks < MaxMarks
    /\ marks' = marks + 1
    /\ \E attribute_name \in AttrNames, uuid \in AttrUuids :
           mark_attribute(attribute_name, FALSE, <<uuid>>, 1)

\* The bitmaps a composition can be given: the attributes and the
\* BitOperation objects built so far.
Operands == {get_attribute(a) : a \in AttrNames} \cup DOMAIN handles

\* The operand lists of a call: up to MaxOperands distinct bitmaps, the empty
\* list included.
OperandLists ==
    {l \in UNION {[1 .. n -> Operands] : n \in 0 .. MaxOperands} :
        \A i, j \in 1 .. Len(l) : i # j => l[i] # l[j]}

\* At most MaxHandles objects are built, the later ones over an earlier one.
Nests(bitmaps) ==
    DOMAIN handles' # DOMAIN handles =>
        /\ Cardinality(DOMAIN handles') <= MaxHandles
        /\ \/ DOMAIN handles = {}
           \/ \E i \in 1 .. Len(bitmaps) : bitmaps[i] \in DOMAIN handles

Compose ==
    \E bitmaps \in OperandLists :
        /\ \/ bit_op_and(bitmaps)
           \/ bit_op_or(bitmaps)
           \/ bit_op_xor(bitmaps)
           \/ bit_op_not(bitmaps)
        /\ Nests(bitmaps)

\* A wait of temp_ttl seconds in one step.
TickLong == Tick(temp_ttl)

InitOps == Start(None)

\* A failed call leaves everything as it was: whatever can follow it could
\* have been called in its place, so the search does not continue from it.
NextOps ==
    /\ ~IsRaise(last.ret)
    /\ \/ MarkAttribute
       \/ Compose /\ UNCHANGED marks
       \/ TickLong /\ UNCHANGED marks
    /\ UNCHANGED pending

SpecOps == InitOps /\ [][NextOps]_vars

\* ----------------------------------------- the attribute specification

NotAttr == "paid_user"
NotKey == get_attribute(NotAttr)
MarkValues == {0, 1, 4}
UuidLists == {<<4, 9>>, <<9, 4>>}
TempTtlArgs == {None} \cup {PyInt(t) : t \in 0 .. MaxTTL}

MarkOne ==
    \E uuid \in AttrUuids, mark_as \in MarkValues :
        mark_attribute(NotAttr, FALSE, <<uuid>>, mark_as)

MarkList ==
    \E uuids \in UuidLists, mark_as \in MarkValues :
        mark_attribute(NotAttr, TRUE, uuids, mark_as)

MarkMulti ==
    \E uuids \in UuidLists, mark_as \in MarkValues :
        mark_attribute_multi(NotAttr, uuids, mark_as)

\* NOT of the attribute, or of an object built so far.
Negate ==
    \E bitmap \in {NotKey} \cup DOMAIN handles :
        /\ bit_op_not(<<bitmap>>)
        /\ Cardinality(DOMAIN handles') <= MaxHandles

InitNot == \E arg \in TempTtlArgs : Start(arg)

NextNot ==
    /\ ~IsRaise(last.ret)
    /\ \/ MarkOne
       \/ MarkList
       \/ MarkMulti
       \/ Negate
       \/ Expiring(store) /\ Tick(1)
       \/ TickLong
    /\ UNCHANGED <<marks, pending>>

SpecNot == InitNot /\ [][NextNot]_vars

\* ------------------------------------------------ claims about get_count

\* The slow reference count: getbit summed over lo .. hi one index at a time.
RECURSIVE SlowCount(_, _, _, _)
SlowCount(st, key, lo, hi) ==
    IF lo > hi THEN 0
    ELSE GETBIT(st, key, lo) + SlowCount(st, key, lo + 1, hi)

\* A negative bit index i designates bit N + i of a bitmap of N bits.
Resolve(st, key, i) == IF i < 0 THEN 8 * StrLen(st, key) + i ELSE i

LastIsCount == last.op = "get_count"
LastStart == last.args.start_bit
LastEnd == last.args.end_bit

\* C1: for non-negative start <= end, get_count(start, end) returns the number
\* of set bits at the indices start .. end inclusive, the value obtained by
\* summing getbit over the range one index at a time.
C1_CountMatchesBitSum ==
    (/\ LastIsCount
     /\ IsInt(LastStart) /\ IsInt(LastEnd)
     /\ 0 <= LastStart.v /\ LastStart.v <= LastEnd.v)
    => last.ret = PyInt(SlowCount(store, last.args.key, LastStart.v, LastEnd.v))

\* C2: with a negative start and/or end, a negative index i designating bit
\* N + i of the N stored bits, get_count returns the number of set bits
\* between the resolved start and the resolved end inclusive.
C2_NegativeIndexCount ==
    (/\ LastIsCount
     /\ IsInt(LastStart) /\ IsInt(LastEnd)
     /\ LastStart.v < 0 \/ LastEnd.v < 0
     /\ 0 <= Resolve(store, last.args.key, LastStart.v)
     /\ Resolve(store, last.args.key, LastStart.v)
            <= Resolve(store, last.args.key, LastEnd.v)
     /\ Resolve(store, last.args.key, LastEnd.v) < 8 * StrLen(store, last.args.key))
    => last.ret = PyInt(SlowCount(store, last.args.key,
                                  Resolve(store, last.args.key, LastStart.v),
                                  Resolve(store, last.args.key, LastEnd.v)))

\* C3: with start, end or both omitted, get_count returns the population
\* count of the whole bitmap: the number of distinct identities whose bit is 1
\* (0 for an absent key).
C3_OmittedBoundsCountAll ==
    (LastIsCount /\ (LastStart = None \/ LastEnd = None))
    => last.ret = PyInt(Cardinality({i \in 0 .. MaxBit :
                                        __contains__(store, last.args.key, i)}))

\* ------------------------------------------------ claims about mark_event

\* The datetime `days` days before now (days < 28), and the hour before now.
DaysAgo(now, days) ==
    IF now.day > days THEN [now EXCEPT !.day = @ - days]
    ELSE LET year == IF now.month = 1 THEN now.year - 1 ELSE now.year
             month == IF now.month = 1 THEN 12 ELSE now.month - 1
         IN  [now EXCEPT !.year = year, !.month = month,
                         !.day = DaysInMonth(year, month) + now.day - days]

HourAgo(now) ==
    IF now.hour > 0 THEN [now EXCEPT !.hour = @ - 1]
    ELSE [DaysAgo(now, 1) EXCEPT !.hour = 23]

\* The bucket of one granularity for an event name and an instant.
Bucket(g, event_name, now) ==
    CASE g = "month" -> get_month_event(event_name, now)
      [] g = "week"  -> get_week_event(event_name, now)
      [] g = "day"   -> get_day_event(event_name, now)
      [] g = "hour"  -> get_hour_event(event_name, now)

OwnBuckets(event_name, now) == {Bucket(g, event_name, now) : g \in Granularities}

\* The previous hour, day and week buckets.
AdjacentBuckets(event_name, now) ==
    {get_hour_event(event_name, HourAgo(now)),
     get_day_event(event_name, DaysAgo(now, 1)),
     get_week_event(event_name, DaysAgo(now, 7))}

\* What t seconds do to one key: a key without a time to live stays as it is,
\* a key whose time to live ran out is gone, another key keeps its content and
\* its deadline.
TickKeeps(k, t) ==
    IF store[k].ttl = NoTtl THEN Exists(store', k) /\ store'[k] = store[k]
    ELSE IF store[k].ttl <= t
    THEN ~Exists(store', k) /\ \A i \in 0 .. (8 * store[k].len) : ~__contains__(store', k, i)
    ELSE /\ Exists(store', k)
         /\ store'[k] = [store[k] EXCEPT !.ttl = @ - t]

\* C4: a mark_event with every granularity enabled makes the identity a member
\* of the hour, day, ISO week and month buckets of `now` for that name, and
\* sets no other bit: the previous hour, day and week buckets are other keys
\* and keep their membership, no other identity joins any bucket, and no
\* bucket of another name changes.
C4_MarkSetsOwnBucketsOnly ==
    [][(last'.op = "mark_event" /\ last'.args.sel = AllSelected) =>
        LET a == last'.args
            own == OwnBuckets(a.name, a.now)
        IN  /\ Cardinality(own) = 4
            /\ \A k \in own : __contains__(store', k, a.uuid)
            /\ \A k \in own : Bits(store', k) \ {a.uuid} = Bits(store, k) \ {a.uuid}
            /\ \A k \in AdjacentBuckets(a.name, a.now) :
                   /\ k \notin own
                   /\ __contains__(store', k, a.uuid) <=> __contains__(store, k, a.uuid)
            /\ \A k \in (DOMAIN store \cup DOMAIN store') \ own :
                   Bits(store', k) = Bits(store, k)
            /\ \A k \in DOMAIN store \cup DOMAIN store' :
                   k[5] # a.name => Exists(store, k) /\ Exists(store', k)
                                    /\ store'[k] = store[k]
    ]_vars

\* Identity 123 marked at 0h on 2012-12-31 after identity 124 was marked the
\* hour before: 123 is in its four buckets and not in the previous hour's.
C4_Witness ==
    LET now == DateTime(2012, 12, 31, 0)
        before == get_hour_event("active", HourAgo(now))
    IN  /\ last.op = "mark_event"
        /\ last.args = [name |-> "active", uuid |-> 123, now |-> now,
                        sel |-> AllSelected, ttl |-> NoTtls]
        /\ \A k \in OwnBuckets("active", now) : __contains__(store, k, 123)
        /\ Bits(store, before) = {124}
        /\ get_week_event("active", HourAgo(now)) \notin OwnBuckets("active", now)

\* C10: a time to live given to mark_event for one granularity is set on that
\* granularity's bucket only: the other buckets the call writes contain the
\* identity and keep the time to live they had (none for a new key); when the
\* seconds pass the bucket with the time to live is gone and the keys without
\* one are as they were.
C10_TtlOnItsBucketOnly ==
    [][/\ (/\ last'.op = "mark_event"
           /\ last'.args.sel = AllSelected
           /\ last'.args.ttl # NoTtls) =>
            LET a == last'.args
            IN  \A g \in Granularities :
                    LET k == Bucket(g, a.name, a.now)
                    IN  /\ __contains__(store', k, a.uuid)
                        /\ Ttl(store', k) = IF a.ttl[g] # None THEN a.ttl[g].v
                                            ELSE Ttl(store, k)
       /\ last'.op = "tick" =>
              \A k \in DOMAIN store : TickKeeps(k, last'.args.seconds)
    ]_vars

\* A mark with hour_ttl alone, then the seconds pass: the hour bucket is gone,
\* the month, week and day buckets contain the identity and never expire.
C10_Witness ==
    /\ last.op = "tick"
    /\ marks = 1
    /\ \E event_name \in EventNames, uuid \in Uuids, now \in Times :
           /\ ~Exists(store, get_hour_event(event_name, now))
           /\ \A g \in Granularities \ {"hour"} :
                  /\ __contains__(store, Bucket(g, event_name, now), uuid)
                  /\ Ttl(store, Bucket(g, event_name, now)) = NoTtl

\* ---------------------------------------------- claims about compositions

\* The identities to look at: every bit a key of st stores and the bits up
\* to MaxBit.
Identities(st) == (0 .. MaxBit) \cup UNION {0 .. (8 * st[k].len) : k \in DOMAIN st}

\* The identities a bitwise operation gives for operands read in st.
Bitwise(op, st, events) ==
    {i \in Identities(st) :
        LET has == {j \in 1 .. Len(events) : __contains__(st, events[j], i)}
        IN  CASE op = "bit_op_and" -> Cardinality(has) = Len(events)
              [] op = "bit_op_or"  -> has # {}
              [] op = "bit_op_xor" -> Cardinality(has) % 2 = 1}

Members(st, key) == {i \in Identities(st) : __contains__(st, key, i)}

LastComposed == last.op \in {"bit_op_and", "bit_op_or", "bit_op_xor"} /\ ~IsRaise(last.ret)

\* C5: when bit_op_and, bit_op_or or bit_op_xor returns, the result contains
\* exactly the identities of the bitwise AND, OR or XOR of the contents its
\* operands have then (an absent key reads as zeros), derived operands
\* included; so AND(AND(A, B), B) has the membership of the object AND(A, B).
C5_CompositionIsBitwise ==
    LastComposed =>
        LET dest == last.ret.v
            events == last.args.events
        IN  /\ Bits(store, dest) = Bitwise(last.op, store, events)
            /\ Members(store, dest) = Bits(store, dest)
            /\ \A a, b \in {get_attribute(n) : n \in AttrNames} :
                   (last.op = "bit_op_and" /\ events = <<BitOpKey("AND", <<a, b>>), b>>)
                   => Members(store, dest) = Members(store, BitOpKey("AND", <<a, b>>))

\* AND(AND(paid_user, active), active) with identity 4 in both attributes.
C5_Witness ==
    LET a == get_attribute("paid_user")
        b == get_attribute("active")
        inner == BitOpKey("AND", <<a, b>>)
    IN  /\ last.op = "bit_op_and"
        /\ last.args.events = <<inner, b>>
        /\ ~IsRaise(last.ret)
        /\ Members(store, inner) = {4}
        /\ Members(store, last.ret.v) = {4}

\* C9: a composition with a wrong number of operands (NOT with more than one,
\* AND, OR or XOR with none) fails before any request is sent to the store.
C9_WrongOperandCountSendsNothing ==
    (\/ last.op \in {"bit_op_and", "bit_op_or", "bit_op_xor"} /\ Len(last.args.events) = 0
     \/ last.op = "bit_op_not" /\ Len(last.args.events) > 1)
    => IsRaise(last.ret) /\ last.cmds = <<>>

\* ------------------------------------------------ claims about attributes

LastNegatedAttr ==
    /\ last.op = "bit_op_not"
    /\ last.args.events = <<NotKey>>
    /\ ~IsRaise(last.ret)

\* (highest set identity + 1) rounded up to a multiple of 8; 0 with no bit set.
WidthOfSetBits(bits) ==
    IF bits = {} THEN 0
    ELSE LET highest == CHOOSE i \in bits : \A j \in bits : j <= i
         IN  8 * ((highest + 8) \div 8)

\* C6 as stated: after any sequence of marks with 1 or 0, the count of
\* bit_op_not(attr) is W - count(attr) with W = (highest set identity + 1)
\* rounded up to a multiple of 8.
C6_NotCountByHighestSet ==
    LastNegatedAttr =>
        get_count(store, last.ret.v, None, None)
            = PyInt(WidthOfSetBits(Bits(store, NotKey)) - BITCOUNT(store, NotKey))

\* C6 amended: the count of bit_op_not(attr) is W - count(attr) with W the
\* number of bits the attribute's key stores, 8 times its byte length (the
\* highest identity ever written to the key, with 1 or 0, plus 1, rounded up
\* to a multiple of 8; 0 for an absent key).
C6_NotCountByStoredLength ==
    LastNegatedAttr =>
        get_count(store, last.ret.v, None, None)
            = PyInt(8 * StrLen(store, NotKey) - BITCOUNT(store, NotKey))

\* NOT of an attribute of two bytes whose only set bit is 4: 15 identities.
C6_Witness ==
    /\ LastNegatedAttr
    /\ Bits(store, NotKey) = {4}
    /\ StrLen(store, NotKey) = 2
    /\ get_count(store, last.ret.v, None, None) = PyInt(15)

\* C7: temp_ttl seconds after its composition, with no composition of the same
\* expression since, a derived key does not exist: its count is 0 and no
\* identity is a member; the seconds that expire it change no other bitmap:
\* a key without a time to live keeps bits and existence, a key with a later
\* deadline keeps its bits and its deadline.
C7_DerivedKeyExpires ==
    /\ [](\A k \in DOMAIN handles :
              handles[k] >= temp_ttl =>
                  /\ ~Exists(store, k)
                  /\ get_count(store, k, None, None) = PyInt(0)
                  /\ Members(store, k) = {})
    /\ [][last'.op = "tick" =>
              \A k \in DOMAIN store : TickKeeps(k, last'.args.seconds)]_vars

\* NOT(paid_user) has expired and paid_user still holds identity 9.
C7_Witness ==
    /\ last.op = "tick"
    /\ handles = (BitOpKey("Not", <<NotKey>>) :> temp_ttl)
    /\ ~Exists(store, BitOpKey("Not", <<NotKey>>))
    /\ Bits(store, NotKey) = {9}
    /\ Ttl(store, NotKey) = NoTtl

\* C8: mark_attribute and mark_attribute_multi with a mark value outside
\* {0, 1} raise ValueError before anything is written: no command is sent and
\* every key keeps its bits, existence and time to live, for one identity and
\* for a list alike.
C8_InvalidMarkWritesNothing ==
    [][(/\ last'.op \in {"mark_attribute", "mark_attribute_multi"}
        /\ last'.args.mark_as \notin {0, 1}) =>
           /\ last'.ret = Raise("ValueError")
           /\ last'.cmds = <<>>
           /\ store' = store
    ]_vars

\* A list of identities marked with 4 on an attribute that holds identity 4.
C8_Witness ==
    /\ last.op = "mark_attribute_multi"
    /\ last.args.mark_as = 4
    /\ Len(last.args.uuids) = 2
    /\ last.ret = Raise("ValueError")
    /\ Bits(store, NotKey) = {4}

\* ---------------------------------------- the byte conversion specification

BitIndices == (-MaxBitIndex) .. MaxBitIndex

\* counter._convert_to_start_byte(bit) and counter._convert_to_end_byte(bit)
\* called on a MixinCounts, as the tests call them.
ConvertStart ==
    \E bit \in BitIndices :
        /\ last' = Call("_convert_to_start_byte", [bit |-> PyInt(bit)],
                        _convert_to_start_byte(PyInt(bit)), <<>>)
        /\ UNCHANGED <<store, temp_ttl, handles, marks, pending>>

ConvertEnd ==
    \E bit \in BitIndices :
        /\ last' = Call("_convert_to_end_byte", [bit |-> PyInt(bit)],
                        _convert_to_end_byte(PyInt(bit)), <<>>)
        /\ UNCHANGED <<store, temp_ttl, handles, marks, pending>>

InitConvert == Start(None)

NextConvert == ConvertStart \/ ConvertEnd

SpecConvert == InitConvert /\ [][NextConvert]_vars

\* ------------------------------------------- claims about the conversions

\* q is the floor of a / 8.
IsFloorOfEighth(q, a) == 8 * q <= a /\ a < 8 * q + 8

\* C16: _convert_to_start_byte(b) is the sentinel iff -7 <= b < 0 and
\* otherwise floor((b + 7) / 8), the smallest byte index k with 8k >= b;
\* _convert_to_end_byte(e) is floor((e + 1) / 8) - 1 for e < 0, the sentinel
\* for 0 <= e < 7 and otherwise floor((e - 7) / 8), the largest byte index k
\* with 8k + 7 <= e; the division rounds toward minus infinity, as the listed
\* values show.
C16_ByteConversions ==
    /\ last.op = "_convert_to_start_byte" =>
           LET b == last.args.bit.v
           IN  IF -7 <= b /\ b < 0 THEN last.ret = ERROR
               ELSE /\ IsInt(last.ret)
                    /\ IsFloorOfEighth(last.ret.v, b + 7)
                    /\ 8 * last.ret.v >= b /\ 8 * (last.ret.v - 1) < b
    /\ last.op = "_convert_to_end_byte" =>
           LET e == last.args.bit.v
           IN  IF e < 0
               THEN IsInt(last.ret) /\ IsFloorOfEighth(last.ret.v + 1, e + 1)
               ELSE IF e < 7 THEN last.ret = ERROR
               ELSE /\ IsInt(last.ret)
                    /\ IsFloorOfEighth(last.ret.v, e - 7)
                    /\ 8 * last.ret.v + 7 <= e /\ 8 * (last.ret.v + 1) + 7 > e
    /\ (last.op = "_convert_to_start_byte" /\ last.args.bit.v = -16) => last.ret = PyInt(-2)
    /\ (last.op = "_convert_to_start_byte" /\ last.args.bit.v = -8) => last.ret = PyInt(-1)
    /\ (last.op = "_convert_to_start_byte" /\ last.args.bit.v = 9) => last.ret = PyInt(2)
    /\ (last.op = "_convert_to_end_byte" /\ last.args.bit.v = -9) => last.ret = PyInt(-2)
    /\ (last.op = "_convert_to_end_byte" /\ last.args.bit.v = -1) => last.ret = PyInt(-1)
    /\ (last.op = "_convert_to_end_byte" /\ last.args.bit.v = 7) => last.ret = PyInt(0)
    /\ (last.op = "_convert_to_end_byte" /\ last.args.bit.v = 127) => last.ret = PyInt(15)

\* The start byte of bit -16 is -2.
C16_Witness ==
    /\ last.op = "_convert_to_start_byte"
    /\ last.args.bit = PyInt(-16)
    /\ last.ret = PyInt(-2)

\* ------------------------------------------------ the names specification

\* Events, an attribute and a derived bitmap side by side, with marks that
\* leave the week bucket out or give it a time to live, deletes and expiry.
NamesNow == DateTime(2012, 12, 30, 23)
NamesUuid == 123
NamesAttr == "paid_user"
NamesCalls ==
    {[sel |-> AllSelected, ttl |-> NoTtls],
     [sel |-> [AllSelected EXCEPT !["week"] = FALSE], ttl |-> NoTtls],
     [sel |-> AllSelected, ttl |-> [NoTtls EXCEPT !["week"] = PyInt(MaxTTL)]],
     [sel |-> AllSelected, ttl |-> [NoTtls EXCEPT !["hour"] = PyInt(MaxTTL)]]}

NamesMarkEvent ==
    /\ marks < MaxMarks
    /\ marks' = marks + 1
    /\ \E event_name \in EventNames, c \in NamesCalls :
           mark_event(event_name, NamesUuid, NamesNow, c.sel, c.ttl)

NamesMarkAttribute ==
    /\ \E mark_as \in {0, 1} : mark_attribute(NamesAttr, FALSE, <<NamesUuid>>, mark_as)
    /\ UNCHANGED marks

\* AND over the week bucket of an event: a derived key that holds an event key.
NamesCompose ==
    /\ \E event_name \in EventNames :
           bit_op_and(<<get_week_event(event_name, NamesNow)>>)
    /\ Cardinality(DOMAIN handles') <= 1
    /\ UNCHANGED marks

NamesTick == Expiring(store) /\ Tick(1) /\ UNCHANGED marks

NamesDelete == (delete_all \/ delete_all_events) /\ UNCHANGED marks

\* The bitmaps looked at: every key of the store and the keys the calls write.
NamesBitmaps ==
    DOMAIN store
    \cup {get_attribute(NamesAttr)}
    \cup UNION {{get_month_event(n, NamesNow), get_week_event(n, NamesNow), get_day_event(n, NamesNow), get_hour_event(n, NamesNow)} : n \in EventNames}

HasEventsMarked ==
    /\ \E key \in NamesBitmaps :
           last' = Call("has_events_marked", [key |-> key],
                        has_events_marked(store, key), <<>>)
    /\ UNCHANGED <<store, temp_ttl, handles, marks>>

GetAllEventNames ==
    /\ last' = Call("get_all_event_names", <<>>, get_all_event_names(store), <<>>)
    /\ UNCHANGED <<store, temp_ttl, handles, marks>>

InitNames == Start(PyInt(MaxTTL))

\* The two queries leave the store as it is: the search does not continue
\* from them.
NextNames ==
    /\ last.op \notin {"has_events_marked", "get_all_event_names"}
    /\ \/ NamesMarkEvent
       \/ NamesMarkAttribute
       \/ NamesCompose
       \/ NamesTick
       \/ NamesDelete
       \/ HasEventsMarked
       \/ GetAllEventNames
    /\ UNCHANGED pending

SpecNames == InitNames /\ [][NextNames]_vars

\* ------------------------------------------------- claims about the names

C15_AllNamesWithAnEventKey ==
    last.op = "get_all_event_names" =>
        last.ret = PySet({key[5] : key \in KEYS(store, "ev")})

\* ----------------------------------------- the recomposition specification

\* The same expressions composed again and again while attributes are marked
\* and seconds pass, under a temp_ttl of more than one second.
AgainTempTtl == PyInt(MaxTTL + 1)

AgainMark ==
    /\ marks < MaxMarks
    /\ marks' = marks + 1
    /\ \E attribute_name \in AttrNames, uuid \in AttrUuids :
           mark_attribute(attribute_name, FALSE, <<uuid>>, 1)

\* The operand lists: the two attributes in either order, or an object built
\* before and an attribute.
AgainLists ==
    LET attrs == {get_attribute(a) : a \in AttrNames}
    IN  {l \in [1 .. 2 -> attrs] : l[1] # l[2]}
        \cup {<<h, a>> : h \in DOMAIN handles, a \in attrs}

AgainCompose ==
    /\ \E bitmaps \in AgainLists :
           /\ \/ bit_op_and(bitmaps)
              \/ bit_op_or(bitmaps)
              \/ bit_op_xor(bitmaps)
           /\ Cardinality(DOMAIN handles') <= MaxHandles
    /\ UNCHANGED marks

AgainTick ==
    /\ \E k \in DOMAIN store : store[k].ttl # NoTtl
    /\ Tick(1)
    /\ UNCHANGED marks

InitAgain == Start(AgainTempTtl)

NextAgain == (AgainMark \/ AgainCompose \/ AgainTick) /\ UNCHANGED pending

SpecAgain == InitAgain /\ [][NextAgain]_vars

\* -------------------------------------------- claims about recomposition

\* C13: composing the same operation over the same ordered operands again
\* addresses the same derived key and adds no other: the call executes the
\* operation again, the key holds the result over the operands' contents of
\* that moment whatever it held before, and its remaining lifetime is the
\* full temp_ttl again.
C13_RecompositionOverwrites ==
    [][(last'.op \in {"bit_op_and", "bit_op_or", "bit_op_xor"} /\ ~IsRaise(last'.ret)) =>
        LET key == last'.ret.v
            events == last'.args.events
        IN  /\ key = BitOpKey(last'.cmds[1].args[1], events)
            /\ KEYS(store', "bitop") \subseteq KEYS(store, "bitop") \cup {key}
            /\ key \in DOMAIN handles => DOMAIN handles' = DOMAIN handles
            /\ \A k \in DOMAIN store \ {key} : Exists(store', k) /\ store'[k] = store[k]
            /\ Bits(store', key) = Bitwise(last'.op, store, events)
            /\ \A j \in 1 .. Len(events) : StrLen(store, events[j]) <= StrLen(store', key)
            /\ \E j \in 1 .. Len(events) : StrLen(store, events[j]) = StrLen(store', key)
            /\ Exists(store', key) => Ttl(store', key) = temp_ttl
            /\ handles'[key] = 0
    ]_vars

\* OR(paid_user, active) was composed, AND of it and active was composed a
\* second ago and holds identity 4 only, identity 9 was marked on active since,
\* and OR(paid_user, active) was just composed again: it holds 9 and has its
\* full lifetime.
C13_Witness ==
    LET a == get_attribute("paid_user")
        b == get_attribute("active")
        x == BitOpKey("OR", <<a, b>>)
        y == BitOpKey("AND", <<x, b>>)
    IN  /\ last.op = "bit_op_or"
        /\ last.ret.v = x
        /\ handles = (x :> 0) @@ (y :> 1)
        /\ Bits(store, y) = {4}
        /\ Bits(store, b) = {4, 9}
        /\ Bits(store, x) = {4, 9}
        /\ Ttl(store, x) = temp_ttl
        /\ Ttl(store, y) = temp_ttl - 1

\* ---------------------------------------------- the clients specification

\* Several clients of one store. A call queues its requests; the store serves
\* one request of one client at a time, in any order between clients. A
\* request is the sequence of commands the store executes with nothing in
\* between: one command, or the commands of one MULTI ... EXEC.
Clients == {"c1", "c2"}

Idle(c) == c \notin DOMAIN pending

\* A faulty variant: a pipeline without the transaction, every command a
\* request of its own.
MarkEventRequestsOneByOne(cmds) == [i \in 1 .. Len(cmds) |-> <<cmds[i]>>]

\* mark_event: `with self.redis_client.pipeline() as p: p.multi() ...
\* p.execute()`, the commands of the call in one transaction.
MarkEventRequests(cmds) == <<cmds>>

\* BitOperation.__init__: redis_client.bitop(...), then redis_client.expire(...).
BitOperationRequests(op_name, events) ==
    LET redis_key == BitOpKey(op_name, events)
    IN  << <<Cmd("BITOP", redis_key, <<RedisOp(op_name), events>>)>>,
           <<Cmd("EXPIRE", redis_key, <<temp_ttl>>)>> >>

\* delete_all_events after its cli.keys(...): cli.delete(*keys) if any.
DeleteRequests(keys) ==
    IF Cardinality(keys) > 0 THEN << <<Cmd("DEL", <<>>, <<keys>>)>> >> ELSE <<>>

InCall(op, args, reqs) == [op |-> op, args |-> args, reqs |-> reqs, sent |-> 0]

Enqueue(c, call) ==
    /\ Idle(c)
    /\ call.reqs # <<>>
    /\ pending' = [k \in DOMAIN pending \cup {c} |-> IF k = c THEN call ELSE pending[k]]
    /\ UNCHANGED <<store, temp_ttl, handles, last>>

\* The keyword arguments of the clients' mark_event calls: the defaults, or a
\* time to live for the hour bucket.
ClientMarkCalls ==
    {[sel |-> AllSelected, ttl |-> NoTtls],
     [sel |-> AllSelected, ttl |-> [NoTtls EXCEPT !["hour"] = PyInt(MaxTTL)]]}

BeginMarkEvent(c) ==
    /\ marks < MaxMarks
    /\ marks' = marks + 1
    /\ \E uuid \in Uuids, k \in ClientMarkCalls :
           Enqueue(c, InCall("mark_event",
                             [name |-> "active", uuid |-> uuid, now |-> NamesNow,
                              sel |-> k.sel, ttl |-> k.ttl],
                             MarkEventRequests(
                                 MarkCmds(stat_objs("active", NamesNow, k.sel, k.ttl), uuid))))

\* bm.bit_op_and(month bucket, week bucket) of the event.
ClientOperands ==
    <<get_month_event("active", NamesNow), get_week_event("active", NamesNow)>>

BeginCompose(c) ==
    /\ Enqueue(c, InCall("bit_op_and", [events |-> ClientOperands],
                         BitOperationRequests("AND", ClientOperands)))
    /\ UNCHANGED marks

\* delete_all_events: the keys request is served at once, the delete later.
BeginDelete(c) ==
    /\ Enqueue(c, InCall("delete_all_events", <<>>, DeleteRequests(KEYS(store, "ev"))))
    /\ UNCHANGED marks

\* A membership read: one getbit request, served at once.
ReadBit(c) ==
    /\ Idle(c)
    /\ \E uuid \in Uuids :
           last' = Call("__contains__",
                        [client |-> c, key |-> get_hour_event("active", NamesNow),
                         uuid |-> uuid],
                        PyBool(__contains__(store, get_hour_event("active", NamesNow), uuid)),
                        <<>>)
    /\ UNCHANGED <<store, temp_ttl, handles, marks, pending>>

\* The store serves the next request of client c; the call returns with its
\* last request.
Serve(c) ==
    /\ ~Idle(c)
    /\ LET call == pending[c]
           request == Head(call.reqs)
       IN  /\ store' = ExecAll(store, request)
           /\ last' = Call(call.op, [client |-> c], None, request)
           /\ pending' =
                  IF Len(call.reqs) = 1
                  THEN [k \in DOMAIN pending \ {c} |-> pending[k]]
                  ELSE [pending EXCEPT ![c] =
                           [call EXCEPT !.reqs = Tail(call.reqs),
                                        !.sent = call.sent + Len(request)]]
    /\ UNCHANGED <<temp_ttl, handles, marks>>

ClientsTick == Expiring(store) /\ Tick(1) /\ UNCHANGED <<marks, pending>>

InitClients == \E arg \in TempTtlArgs : Start(arg)

NextClients ==
    \/ \E c \in Clients : BeginMarkEvent(c)
    \/ \E c \in Clients : BeginCompose(c)
    \/ \E c \in Clients : BeginDelete(c)
    \/ \E c \in Clients : ReadBit(c)
    \/ \E c \in Clients : Serve(c)
    \/ ClientsTick

SpecClients == InitClients /\ [][NextClients]_vars

\* ------------------------------------------------ claims about the clients

\* The commands of the call a client is in.
RECURSIVE Flatten(_)
Flatten(reqs) == IF reqs = <<>> THEN <<>> ELSE Head(reqs) \o Flatten(Tail(reqs))

\* C11: the setbit and expire commands of one mark_event call are applied as
\* one batch: while the call is in progress the store has executed none of
\* them, and the step that executes one executes them all, in order, with no
\* command of another client between them, after which every selected bucket
\* carries the bit.
C11_MarkEventBatchIsAtomic ==
    /\ [](\A c \in DOMAIN pending : pending[c].op = "mark_event" => pending[c].sent = 0)
    /\ [][\A c \in DOMAIN pending :
              pending[c].op = "mark_event" =>
                  \/ c \in DOMAIN pending' /\ pending'[c] = pending[c]
                  \/ /\ c \notin DOMAIN pending'
                     /\ store' = ExecAll(store, Flatten(pending[c].reqs))
                     /\ \A g \in Granularities :
                            __contains__(store',
                                         Bucket(g, pending[c].args.name, pending[c].args.now),
                                         pending[c].args.uuid)
         ]_vars

\* The batch of one client was just executed while the batch of the other
\* client, queued before, has not been: the four buckets carry the first
\* client's bit and none carries the second's.
C11_Witness ==
    /\ last.op = "mark_event"
    /\ last.args.client = "c1"
    /\ Len(last.cmds) = 4
    /\ "c2" \in DOMAIN pending
    /\ pending["c2"].op = "mark_event"
    /\ pending["c2"].args.uuid = 124
    /\ \A g \in Granularities :
           Bits(store, Bucket(g, "active", NamesNow)) = {123}

\* C12: in every reachable state of the store every existing derived key has a
\* positive time to live.
C12_DerivedKeysHaveTtl ==
    \A k \in KEYS(store, "bitop") : Ttl(store, k) >= 1

====
